---- MODULE Spec2Model ----
(***************************************************************************)
(* Agent Backlink Network (abn-skill): the matching engine of query.js,    *)
(* the link verifier of verify.js, the bid query of watch.js, the relay    *)
(* publishing and message reading of bid.js and the deal flow of abn.js,   *)
(* as state machines.                                                      *)
(*                                                                         *)
(* Strings are sequences of tokens: a URL such as                          *)
(* https://sub.targetdomain.com/x is <<"https://", "sub.",                 *)
(* "targetdomain.com", "/", "x">>, and String.prototype.includes is the    *)
(* contiguous-subsequence test on such sequences.                          *)
(***************************************************************************)
EXTENDS Integers, Sequences, FiniteSets

VARIABLES
    yourSite,      \* findMatches: the requester's site
    allSites,      \* findMatches: the candidate list, in input order
    matches,       \* findMatches: the returned list
    qpc,           \* findMatches: "ready" | "done"
    pageUrl,       \* verifyBacklink: argument
    targetDomain,  \* verifyBacklink: argument
    options,       \* verifyBacklink: argument { dofollow, anchor, exactUrl }
    vpc,           \* verifyBacklink: position of the call
    hops,          \* fetchPage: redirects followed so far
    fetchErr,      \* fetchPage: message of the rejection, or NoString
    html,          \* fetchPage: the body the promise resolved with
    result,        \* verifyBacklink: what the caller gets
    checks,        \* batchVerify: argument, a list of { pageUrl, targetDomain, options }
    web,           \* batchVerify: what the server of each page answers
    started,       \* batchVerify: indices of the checks whose fetch was issued
    inFlight,      \* batchVerify: indices of the checks awaiting their result
    results,       \* batchVerify: the local results array
    bpc,           \* batchVerify: position of the call
    relayEvents,   \* queryBids: the events pool.querySync resolved with
    now,           \* queryBids: Math.floor(Date.now() / 1000)
    activeBids,    \* queryBids: the returned list
    wpc,           \* queryBids: position of the call
    op,            \* createBid / registerSite / sendDM: the call and its argument
    ppc,           \* publishing: position of the call
    signedEvents,  \* publishing: events built by finalizeEvent so far
    attempts,      \* publishing: one entry per relay tried, in order
    success,       \* publishing: sendDM's counter of accepted publishes
    openRelays,    \* publishing: relays connected and not closed
    outcome,       \* publishing: how the call ended for its caller
    dmEvents,      \* readDMs: the events pool.querySync resolved with
    messages,      \* readDMs: the returned list
    rpc,           \* readDMs: position of the call
    deal,          \* executeDeal: argument
    wallet,        \* executeDeal: how the Lightning backend answers
    dpc,           \* executeDeal: position of the call
    steps,         \* executeDeal: the local steps array
    sent,          \* executeDeal: messages handed to sendDM and published
    paid,          \* executeDeal: payments made through payInvoice
    invoices,      \* executeDeal: invoices made through createInvoice
    verification,  \* executeDeal: the result verifyLink resolved with
    dealResult,    \* executeDeal: what the caller gets
    abn,           \* negotiation: the fields of the ABN instance
    published,     \* negotiation: the DMs the relays took, in order
    origin,        \* negotiation: for each of them, the negotiation the caller meant
    clock,         \* negotiation: Date.now(), in ticks
    ncalls,        \* negotiation: calls of negotiation methods so far
    lastOutcome,   \* negotiation: how the last call ended
    argv,          \* command line: the script and its arguments
    cpc,           \* command line: position of the process
    cliOptions,    \* command line: the options verify.js parsed from its flags
    opResult,      \* command line: how the operation the command runs ended
    stderr,        \* command line: was anything written to stderr
    exitCode       \* command line: exit status of the process

matchVars == <<yourSite, allSites, matches, qpc>>

verifyVars == <<pageUrl, targetDomain, options, vpc, hops, fetchErr, html, result>>

batchVars == <<checks, web, started, inFlight, results, bpc>>

queryVars == <<relayEvents, now, activeBids, wpc>>

publishVars == <<op, ppc, signedEvents, attempts, success, openRelays, outcome>>

readVars == <<dmEvents, messages, rpc>>

dealVars == <<deal, wallet, dpc, steps, sent, paid, invoices, verification, dealResult>>

negoVars == <<abn, published, origin, clock, ncalls, lastOutcome>>

cliVars == <<argv, cpc, cliOptions, opResult, stderr, exitCode>>

vars == <<matchVars, verifyVars, batchVars, queryVars, publishVars, readVars, dealVars,
          negoVars, cliVars>>

(***************************************************************************)
(* Bounds of the model.                                                    *)
(***************************************************************************)
MaxSites == 2

MaxLinks == 2

MaxHops == 2

\* The empty string (falsy in JavaScript: an unset option).
NoString == << >>

\* No result yet.
NoResult == [kind |-> "none"]

(***************************************************************************)
(* Each component has its own specification; the variables of the other    *)
(* components stay as they are before any call.                            *)
(***************************************************************************)
BatchIdle ==
    /\ checks = << >>
    /\ web = << >>
    /\ started = {}
    /\ inFlight = {}
    /\ results = << >>
    /\ bpc = "idle"

QueryIdle ==
    /\ relayEvents = << >>
    /\ now = 0
    /\ activeBids = << >>
    /\ wpc = "idle"

PublishIdle ==
    /\ op = [name |-> "none"]
    /\ ppc = "idle"
    /\ signedEvents = 0
    /\ attempts = << >>
    /\ success = 0
    /\ openRelays = {}
    /\ outcome = "none"

ReadIdle ==
    /\ dmEvents = << >>
    /\ messages = << >>
    /\ rpc = "idle"

NegoIdle ==
    /\ abn = [f \in {"_pubkey"} |-> "null"]
    /\ published = << >>
    /\ origin = << >>
    /\ clock = 0
    /\ ncalls = 0
    /\ lastOutcome = "none"

CliIdle ==
    /\ argv = [script |-> "none", words |-> << >>]
    /\ cpc = "idle"
    /\ cliOptions = [dofollow |-> FALSE, anchor |-> << >>, exactUrl |-> << >>]
    /\ opResult = "none"
    /\ stderr = FALSE
    /\ exitCode = 0

DealIdle ==
    /\ deal = [role |-> "none"]
    /\ wallet = [pay |-> "none", invoice |-> "none"]
    /\ dpc = "idle"
    /\ steps = << >>
    /\ sent = << >>
    /\ paid = << >>
    /\ invoices = << >>
    /\ verification = NoResult
    /\ dealResult = [kind |-> "none"]

(***************************************************************************)
(* config.js                                                               *)
(***************************************************************************)
\* RELATED_INDUSTRIES[a]: the list under key a, undefined (here: empty) for
\* an industry that is no key of the table.
RELATED_INDUSTRIES(a) ==
    CASE a = "plumbing" -> {"hvac", "electrical", "construction", "roofing", "home-services"}
      [] a = "hvac" -> {"plumbing", "electrical", "construction", "home-services"}
      [] a = "roofing" -> {"construction", "plumbing", "gutters", "siding"}
      [] a = "electrical" -> {"plumbing", "hvac", "construction", "solar"}
      [] a = "construction" -> {"roofing", "plumbing", "hvac", "electrical", "concrete"}
      [] a = "landscaping" -> {"tree-service", "lawn-care", "irrigation", "hardscaping"}
      [] a = "real-estate" -> {"mortgage", "home-inspection", "title", "moving"}
      [] a = "dental" -> {"orthodontics", "oral-surgery", "healthcare"}
      [] a = "legal" -> {"accounting", "financial", "insurance"}
      [] a = "restaurant" -> {"catering", "food-service", "hospitality"}
      [] OTHER -> {}

\* RELATED_INDUSTRIES[a]?.includes(b) || RELATED_INDUSTRIES[b]?.includes(a)
isRelatedIndustry(a, b) ==
    b \in RELATED_INDUSTRIES(a) \/ a \in RELATED_INDUSTRIES(b)

(***************************************************************************)
(* query.js: findMatches                                                   *)
(***************************************************************************)
\* A bug: the two authority bonuses made exclusive (else if).
matchScoreExclusiveDA(your, site) ==
    (IF your.state = site.state THEN 30 ELSE 0)
  + (IF your.city # site.city THEN 20 ELSE 0)
  + (IF your.industry = site.industry THEN 25
     ELSE IF isRelatedIndustry(your.industry, site.industry) THEN 20 ELSE 0)
  + (IF site.da >= 40 THEN 10 ELSE IF site.da >= 30 THEN 15 ELSE 0)

\* The body of the map callback: the score of one candidate.
\* da is null for a site registered without one (register.js: site.da || null);
\* null >= 30 is false, as 0 >= 30 is, so 0 stands for it.
matchScore(your, site) ==
    (IF your.state = site.state THEN 30 ELSE 0)
  + (IF your.city # site.city THEN 20 ELSE 0)
  + (IF your.industry = site.industry THEN 25
     ELSE IF isRelatedIndustry(your.industry, site.industry) THEN 20 ELSE 0)
  + (IF site.da >= 30 THEN 15 ELSE 0)
  + (IF site.da >= 40 THEN 10 ELSE 0)

\* A bug: the threshold made inclusive (>= 30).
aboveThresholdInclusive(m) == m.matchScore >= 30

\* .filter(s => s.matchScore > 30)
aboveThreshold(m) == m.matchScore > 30

RECURSIVE insertByScore(_, _)
\* x placed after every element whose score is >= its own: what a stable
\* sort with the comparator b.matchScore - a.matchScore does with a later x.
insertByScore(sorted, x) ==
    IF sorted = << >> THEN <<x>>
    ELSE IF Head(sorted).matchScore >= x.matchScore
         THEN <<Head(sorted)>> \o insertByScore(Tail(sorted), x)
         ELSE <<x>> \o sorted

RECURSIVE insertBeforeTies(_, _)
insertBeforeTies(sorted, x) ==
    IF sorted = << >> THEN <<x>>
    ELSE IF Head(sorted).matchScore > x.matchScore
         THEN <<Head(sorted)>> \o insertBeforeTies(Tail(sorted), x)
         ELSE <<x>> \o sorted

RECURSIVE sortUnstableFrom(_, _)
sortUnstableFrom(sorted, rest) ==
    IF rest = << >> THEN sorted
    ELSE sortUnstableFrom(insertBeforeTies(sorted, Head(rest)), Tail(rest))

\* A bug: a sort that is not stable (ties come out reversed).
sortByMatchScoreUnstable(ms) == sortUnstableFrom(<< >>, ms)

RECURSIVE sortFrom(_, _)
sortFrom(sorted, rest) ==
    IF rest = << >> THEN sorted
    ELSE sortFrom(insertByScore(sorted, Head(rest)), Tail(rest))

\* .sort((a, b) => b.matchScore - a.matchScore): Array.prototype.sort is stable.
sortByMatchScore(ms) == sortFrom(<< >>, ms)

RECURSIVE scoreAll(_, _)
\* .filter(s => s.url !== yourSite.url).map(site => ({...site, matchScore}))
scoreAll(your, sites) ==
    IF sites = << >> THEN << >>
    ELSE IF Head(sites).url # your.url
         THEN <<[site |-> Head(sites), matchScore |-> matchScore(your, Head(sites))]>>
              \o scoreAll(your, Tail(sites))
         ELSE scoreAll(your, Tail(sites))

findMatches(your, sites) ==
    sortByMatchScore(SelectSeq(scoreAll(your, sites), aboveThreshold))

\* Inputs of findMatches.
Requesters ==
    [url : {"u0"}, state : {"CA"}, city : {"LA"},
     industry : {"plumbing", "roofing", "gutters", "dental"}, da : {0}]

\* Single candidates: every combination around the thresholds.
ScoreSites ==
    [url : {"u0", "u1"}, state : {"CA", "NV"}, city : {"LA", "SD"},
     industry : {"plumbing", "hvac", "roofing", "gutters", "solar", "dental"},
     da : {0, 29, 30, 35, 39, 40, 45}]

\* Candidates of the longer lists: scores that tie, and scores below the cut.
RankSites ==
    [url : {"u0", "u1"}, state : {"CA", "NV"}, city : {"SD"},
     industry : {"plumbing", "hvac", "dental"}, da : {0, 40}]

SeqsUpTo(S, n) == UNION {[1..k -> S] : k \in 0..n}

CandidateLists == {<<s>> : s \in ScoreSites} \cup SeqsUpTo(RankSites, MaxSites)

VerifyIdle ==
    /\ pageUrl = NoString
    /\ targetDomain = NoString
    /\ options = [dofollow |-> FALSE, anchor |-> NoString, exactUrl |-> NoString]
    /\ vpc = "idle"
    /\ hops = 0
    /\ fetchErr = NoString
    /\ html = << >>
    /\ result = NoResult

InitMatch ==
    /\ yourSite \in Requesters
    /\ allSites \in CandidateLists
    /\ matches = << >>
    /\ qpc = "ready"
    /\ VerifyIdle
    /\ BatchIdle /\ QueryIdle /\ PublishIdle /\ ReadIdle /\ DealIdle /\ NegoIdle /\ CliIdle

FindMatches ==
    /\ qpc = "ready"
    /\ matches' = findMatches(yourSite, allSites)
    /\ qpc' = "done"
    /\ UNCHANGED <<yourSite, allSites>>
    /\ UNCHANGED <<verifyVars, batchVars, queryVars, publishVars, readVars, dealVars, negoVars, cliVars>>

NextMatch == FindMatches

SpecMatch == InitMatch /\ [][NextMatch]_vars

(***************************************************************************)
(* Strings (token sequences) and the WHATWG URL parser, as far as          *)
(* verify.js uses them.                                                    *)
(***************************************************************************)
\* String.prototype.includes
includes(s, sub) ==
    \E i \in 0..(Len(s) - Len(sub)) : SubSeq(s, i + 1, i + Len(sub)) = sub

RECURSIVE trimStart(_)
trimStart(s) ==
    IF s # << >> /\ Head(s) = " " THEN trimStart(Tail(s)) ELSE s

RECURSIVE trimEnd(_)
trimEnd(s) ==
    IF s # << >> /\ s[Len(s)] = " " THEN trimEnd(SubSeq(s, 1, Len(s) - 1)) ELSE s

\* String.prototype.trim
trim(s) == trimEnd(trimStart(s))

lowerToken(t) ==
    CASE t = "Best" -> "best"
      [] t = "NOFOLLOW" -> "nofollow"
      [] t = "TargetDomain.com" -> "targetdomain.com"
      [] OTHER -> t

\* String.prototype.toLowerCase
toLowerCase(s) == [k \in 1..Len(s) |-> lowerToken(s[k])]

RECURSIVE stripSlashes(_)
stripSlashes(s) ==
    IF s # << >> /\ Head(s) = "/" THEN stripSlashes(Tail(s)) ELSE s

RECURSIVE takeHost(_)
takeHost(s) ==
    IF s = << >> \/ Head(s) = "/" THEN << >> ELSE <<Head(s)>> \o takeHost(Tail(s))

InvalidURL == [ok |-> FALSE, hostname |-> << >>, pathname |-> << >>]

\* new URL(u) for an absolute https URL: the host is what follows the scheme
\* (and any further slashes) up to the next slash, lower-cased; an empty host
\* or a host with a forbidden code point (a space) is a TypeError.
parseAbsolute(u) ==
    IF u # << >> /\ Head(u) = "https://"
    THEN LET rest == stripSlashes(Tail(u))
             host == takeHost(rest)
             path == SubSeq(rest, Len(host) + 1, Len(rest))
         IN IF host = << >> \/ includes(host, <<" ">>)
            THEN InvalidURL
            ELSE [ok |-> TRUE, hostname |-> toLowerCase(host),
                  pathname |-> IF path = << >> THEN <<"/">> ELSE path]
    ELSE InvalidURL

RECURSIVE dirOf(_)
\* The path up to and including its last slash.
dirOf(path) ==
    IF path = << >> \/ path[Len(path)] = "/" THEN path
    ELSE dirOf(SubSeq(path, 1, Len(path) - 1))

\* new URL(href, base): an absolute href stands alone; //host/path takes the
\* scheme of the base, /path its host as well, anything else its directory.
newURL(href, base) ==
    IF href # << >> /\ Head(href) = "https://" THEN parseAbsolute(href)
    ELSE LET b == parseAbsolute(base) IN
         IF ~b.ok THEN InvalidURL
         ELSE IF Len(href) >= 2 /\ href[1] = "/" /\ href[2] = "/"
              THEN parseAbsolute(<<"https://">> \o Tail(Tail(href)))
         ELSE IF href # << >> /\ Head(href) = "/"
              THEN [ok |-> TRUE, hostname |-> b.hostname, pathname |-> href]
         ELSE [ok |-> TRUE, hostname |-> b.hostname,
               pathname |-> dirOf(b.pathname) \o href]

\* URL.prototype.href
urlHref(u) == <<"https://">> \o u.hostname \o u.pathname

(***************************************************************************)
(* verify.js: extractLinks                                                 *)
(*                                                                         *)
(* A page body is the sequence of its anchor elements, each with the raw   *)
(* value of its href and rel attributes, its text, and whether it holds a  *)
(* nested element (which the [^<]* of linkRegex cannot match).             *)
(***************************************************************************)
linkOf(el) ==
    [href |-> trim(el.href),
     anchor |-> trim(el.text),
     rel |-> toLowerCase(el.rel),
     isDoFollow |-> ~includes(el.rel, <<"nofollow">>),
     isSponsored |-> includes(el.rel, <<"sponsored">>),
     isUGC |-> includes(el.rel, <<"ugc">>)]

RECURSIVE extractLinks(_)
extractLinks(body) ==
    IF body = << >> THEN << >>
    ELSE IF Head(body).nested \/ Head(body).href = << >>
         THEN extractLinks(Tail(body))
         ELSE <<linkOf(Head(body))>> \o extractLinks(Tail(body))

(***************************************************************************)
(* verify.js: verifyBacklink                                               *)
(***************************************************************************)
\* The callback of links.filter (lines 92-99).
matchesDomain(link, page, domain) ==
    LET url == newURL(link.href, page) IN
    IF url.ok
    THEN includes(url.hostname, domain) \/ includes(link.href, domain)
    ELSE includes(link.href, domain)

Message(text, arg) == [text |-> text, arg |-> arg]

\* A bug: the catch block rethrows.
catchBlockRethrow(errMessage) ==
    [kind |-> "threw", verified |-> FALSE, error |-> errMessage,
     message |-> Message("", errMessage),
     linksFound |-> << >>, bestMatch |-> << >>]

\* The catch block (lines 161-170): the error becomes a returned result.
catchBlock(errMessage) ==
    [kind |-> "returned", verified |-> FALSE, error |-> errMessage,
     message |-> Message("Failed to fetch page: ", errMessage),
     linksFound |-> << >>, bestMatch |-> << >>]

Returned(verified, text, arg, found, best) ==
    [kind |-> "returned", verified |-> verified, error |-> NoString,
     message |-> Message(text, arg), linksFound |-> found, bestMatch |-> best]

\* The try block after the fetch (lines 89-159). bestMatch is a sequence of
\* at most one link; options null makes options.dofollow a TypeError, which
\* the catch block takes.
verifyBody(body, page, domain, opts) ==
    LET links == extractLinks(body)
        isMatch(l) == matchesDomain(l, page, domain)
        matchingLinks == SelectSeq(links, isMatch)
        isDo(l) == l.isDoFollow
        dofollowLinks == SelectSeq(matchingLinks, isDo)
        hasAnchor(l) == includes(toLowerCase(l.anchor), toLowerCase(opts.anchor))
        hasExact(l) == l.href = opts.exactUrl
    IN
    IF matchingLinks = << >>
    THEN Returned(FALSE, "No links found to target domain", NoString, << >>, << >>)
    ELSE IF opts.isNull
    THEN catchBlock(<<"Cannot read properties of null">>)
    ELSE IF opts.dofollow /\ dofollowLinks = << >>
    THEN Returned(FALSE, "Links found but all are nofollow", NoString,
                  matchingLinks, << >>)
    ELSE IF opts.anchor # NoString
            /\ ~\E k \in 1..Len(matchingLinks) : hasAnchor(matchingLinks[k])
    THEN Returned(FALSE, "Links found but anchor text not matched", opts.anchor,
                  matchingLinks, << >>)
    ELSE IF opts.exactUrl # NoString
            /\ ~\E k \in 1..Len(matchingLinks) : hasExact(matchingLinks[k])
    THEN Returned(FALSE, "Links found but exact URL not matched", opts.exactUrl,
                  matchingLinks, << >>)
    ELSE Returned(TRUE, "Found link(s) to target domain", domain, matchingLinks,
                  <<IF opts.dofollow THEN Head(dofollowLinks) ELSE Head(matchingLinks)>>)

(***************************************************************************)
(* Inputs of verifyBacklink and what the remote server may send.           *)
(***************************************************************************)
Target == <<"targetdomain.com">>

PageUrls ==
    {<<"https://", "partner.com", "/", "links">>,
     <<"https://", "targetdomain.com", "/", "about">>,
     <<"partner.com">>}

HrefTarget == <<"https://", "targetdomain.com">>

HrefTargetSlash == <<"https://", "targetdomain.com", "/">>

HrefSub == <<"https://", "sub.", "targetdomain.com", "/", "x">>

\* Another site's page whose path merely names the target domain.
HrefMention == <<"https://", "other.com", "/", "targetdomain.com">>

HrefOther == <<"https://", "other.com">>

HrefRelative == <<"/", "x">>

\* No host: new URL throws.
HrefNoHost == <<"https://">>

\* A space in the host: new URL throws, and the text names the target domain.
HrefBadHost == <<"https://", "targetdomain.com", " ", "x">>

Rels == {<< >>, <<"nofollow">>, <<"NOFOLLOW">>}

Texts == {<<"Click">>, <<"best", "plumber">>}

Elements ==
    [href : {HrefTarget, HrefSub}, rel : Rels, text : Texts, nested : {FALSE}]
    \cup [href : {HrefMention, HrefOther, HrefRelative, HrefNoHost, HrefBadHost},
          rel : {<< >>}, text : {<<"best", "plumber">>}, nested : {FALSE}]
    \cup [href : {HrefTarget}, rel : {<< >>}, text : {<<"Click">>}, nested : {TRUE}]
    \cup [href : {<<" ", "https://", "targetdomain.com", " ">>}, rel : {<< >>},
          text : {<<" ", "Click">>}, nested : {FALSE}]

Bodies == SeqsUpTo(Elements, MaxLinks)

OptionSets ==
    [isNull : {FALSE}, dofollow : BOOLEAN, anchor : {NoString, <<"Best">>},
     exactUrl : {NoString, HrefTarget, HrefTargetSlash}]
    \cup {[isNull |-> TRUE, dofollow |-> FALSE, anchor |-> NoString,
           exactUrl |-> NoString]}

\* err.message of a rejected fetchPage promise.
FetchErrors ==
    {<<"HTTP ", "404">>, <<"HTTP ", "500">>, <<"HTTP ", "204">>, <<"HTTP ", "301">>,
     <<"Request timed out">>, <<"connect ECONNREFUSED">>}

MatchIdle ==
    /\ yourSite = [url |-> "u0", state |-> "CA", city |-> "LA",
                   industry |-> "plumbing", da |-> 0]
    /\ allSites = << >>
    /\ matches = << >>
    /\ qpc = "idle"

InitVerify ==
    /\ pageUrl \in PageUrls
    /\ targetDomain = Target
    /\ options \in OptionSets
    /\ vpc = "idle"
    /\ hops = 0
    /\ fetchErr = NoString
    /\ html = << >>
    /\ result = NoResult
    /\ MatchIdle
    /\ BatchIdle /\ QueryIdle /\ PublishIdle /\ ReadIdle /\ DealIdle /\ NegoIdle /\ CliIdle

\* verifyBacklink is called: fetchPage(pageUrl) issues the request;
\* protocol.get throws on a URL it cannot parse, inside the promise executor.
Call ==
    /\ vpc = "idle"
    /\ IF parseAbsolute(pageUrl).ok
       THEN vpc' = "fetching" /\ fetchErr' = fetchErr
       ELSE vpc' = "rejected" /\ fetchErr' = <<"Invalid URL">>
    /\ UNCHANGED <<pageUrl, targetDomain, options, hops, html, result>>
    /\ UNCHANGED <<matchVars, batchVars, queryVars, publishVars, readVars, dealVars, negoVars, cliVars>>

\* A 3xx response with a usable Location: fetchPage calls itself, however
\* many redirects came before. hops is the place in the chain of redirects;
\* a chain longer than MaxHops is one that leads back to its first target
\* (with MaxHops = 2, two URLs that redirect to each other).
Redirect ==
    /\ vpc = "fetching"
    /\ hops' = IF hops < MaxHops THEN hops + 1 ELSE 1
    /\ UNCHANGED <<pageUrl, targetDomain, options, vpc, fetchErr, html, result>>
    /\ UNCHANGED <<matchVars, batchVars, queryVars, publishVars, readVars, dealVars, negoVars, cliVars>>

\* A 3xx response whose Location is relative and does not resolve ("//"):
\* new URL throws inside the response callback, outside the promise executor
\* and outside every try: the promise never settles and the exception is
\* uncaught in the process.
RedirectUnresolvable ==
    /\ vpc = "fetching"
    /\ vpc' = "crashed"
    /\ UNCHANGED <<pageUrl, targetDomain, options, hops, fetchErr, html, result>>
    /\ UNCHANGED <<matchVars, batchVars, queryVars, publishVars, readVars, dealVars, negoVars, cliVars>>

\* A status other than 200, a network error or a timeout: the promise rejects.
FetchFails ==
    /\ vpc = "fetching"
    /\ \E e \in FetchErrors : fetchErr' = e
    /\ vpc' = "rejected"
    /\ UNCHANGED <<pageUrl, targetDomain, options, hops, html, result>>
    /\ UNCHANGED <<matchVars, batchVars, queryVars, publishVars, readVars, dealVars, negoVars, cliVars>>

\* Status 200: the promise resolves with the body.
FetchSucceeds ==
    /\ vpc = "fetching"
    /\ \E b \in Bodies : html' = b
    /\ vpc' = "fetched"
    /\ UNCHANGED <<pageUrl, targetDomain, options, hops, fetchErr, result>>
    /\ UNCHANGED <<matchVars, batchVars, queryVars, publishVars, readVars, dealVars, negoVars, cliVars>>

\* The rest of the try block, and the return.
Verify ==
    /\ vpc = "fetched"
    /\ result' = verifyBody(html, pageUrl, targetDomain, options)
    /\ vpc' = "done"
    /\ UNCHANGED <<pageUrl, targetDomain, options, hops, fetchErr, html>>
    /\ UNCHANGED <<matchVars, batchVars, queryVars, publishVars, readVars, dealVars, negoVars, cliVars>>

\* The catch block, on a rejected fetch.
CatchFetchError ==
    /\ vpc = "rejected"
    /\ result' = catchBlock(fetchErr)
    /\ vpc' = "done"
    /\ UNCHANGED <<pageUrl, targetDomain, options, hops, fetchErr, html>>
    /\ UNCHANGED <<matchVars, batchVars, queryVars, publishVars, readVars, dealVars, negoVars, cliVars>>

NextVerify ==
    \/ Call
    \/ Redirect
    \/ RedirectUnresolvable
    \/ FetchFails
    \/ FetchSucceeds
    \/ Verify
    \/ CatchFetchError

SpecVerify == InitVerify /\ [][NextVerify]_vars

\* What the event loop and the request timeout guarantee: a called
\* verifyBacklink issues its request, every request gets a response, an
\* error or its timeout, and a settled fetch is followed by the rest of the
\* try block or by the catch block. Which response a server gives is not
\* the program's to choose.
RequestAnswered == Redirect \/ RedirectUnresolvable \/ FetchFails \/ FetchSucceeds

SpecVerifyFair ==
    /\ InitVerify
    /\ [][NextVerify]_vars
    /\ WF_vars(Call)
    /\ WF_vars(RequestAnswered)
    /\ WF_vars(Verify)
    /\ WF_vars(CatchFetchError)

(***************************************************************************)
(* verify.js: batchVerify.                                                 *)
(***************************************************************************)
MaxChecks == 2

BatchPages ==
    {<<"https://", "partner.com", "/", "links">>,
     <<"https://", "blog.com", "/", "post">>}

BatchOptions ==
    {[isNull |-> FALSE, dofollow |-> d, anchor |-> NoString, exactUrl |-> NoString] :
        d \in BOOLEAN}

\* The elements of `checks`: the third page URL does not parse.
Checks ==
    [pageUrl : BatchPages \cup {<<"partner.com">>}, targetDomain : {Target},
     options : BatchOptions]

BatchBodies ==
    {<< >>,
     <<[href |-> HrefTarget, rel |-> << >>, text |-> <<"Click">>, nested |-> FALSE]>>,
     <<[href |-> HrefTarget, rel |-> <<"nofollow">>, text |-> <<"Click">>,
        nested |-> FALSE]>>}

\* What fetchPage(page) comes to: the promise resolves with a body, rejects
\* with an error, never settles because every response redirects, or the
\* response callback throws on an unresolvable Location.
Responses ==
    [kind : {"resolved"}, body : BatchBodies, err : {NoString}]
    \cup [kind : {"rejected"}, body : {<< >>},
          err : {<<"HTTP ", "404">>, <<"Request timed out">>}]
    \cup [kind : {"redirects", "crash"}, body : {<< >>}, err : {NoString}]

responseOf(w, page) ==
    IF page \in DOMAIN w THEN w[page] ELSE [kind |-> "none"]

\* Does fetchPage(check.pageUrl) settle?
settles(check, response) ==
    ~parseAbsolute(check.pageUrl).ok \/ response.kind \in {"resolved", "rejected"}

\* verifyBacklink(check.pageUrl, check.targetDomain, check.options) on a
\* fetch that settles (lines 84-171).
verifyBacklink(check, response) ==
    IF ~parseAbsolute(check.pageUrl).ok
    THEN catchBlock(<<"Invalid URL">>)
    ELSE IF response.kind = "rejected"
    THEN catchBlock(response.err)
    ELSE verifyBody(response.body, check.pageUrl, check.targetDomain, check.options)

\* A bug: every remaining check is started at once (Promise.all).
startedByIterationAll(i, n) == i..n

\* The checks whose verifyBacklink call the i-th iteration of the for loop
\* issues (line 181), n being checks.length.
startedByIteration(i, n) == {i}

InitBatch ==
    /\ checks \in SeqsUpTo(Checks, MaxChecks)
    /\ web \in [BatchPages -> Responses]
    /\ started = {}
    /\ inFlight = {}
    /\ results = << >>
    /\ bpc = "loop"
    /\ MatchIdle /\ VerifyIdle /\ QueryIdle /\ PublishIdle /\ ReadIdle /\ DealIdle /\ NegoIdle /\ CliIdle

\* The head of the for loop and the call of verifyBacklink (lines 180-181).
BatchIterate ==
    /\ bpc = "loop"
    /\ Len(results) < Len(checks)
    /\ LET toStart == startedByIteration(Len(results) + 1, Len(checks)) IN
        /\ started' = started \cup toStart
        /\ inFlight' = inFlight \cup toStart
    /\ bpc' = "awaiting"
    /\ UNCHANGED <<checks, web, results>>
    /\ UNCHANGED <<matchVars, verifyVars, queryVars, publishVars, readVars, dealVars, negoVars, cliVars>>

\* The awaited verifyBacklink settles: results.push(result) (line 182) and
\* the delay starts (line 183); a rejection would leave the loop.
BatchSettle ==
    /\ bpc = "awaiting"
    /\ \E i \in inFlight :
        LET response == responseOf(web, checks[i].pageUrl)
            r == verifyBacklink(checks[i], response)
        IN  /\ settles(checks[i], response)
            /\ inFlight' = inFlight \ {i}
            /\ IF r.kind = "threw"
               THEN bpc' = "aborted" /\ results' = results
               ELSE bpc' = "delay" /\ results' = Append(results, r)
    /\ UNCHANGED <<checks, web, started>>
    /\ UNCHANGED <<matchVars, verifyVars, queryVars, publishVars, readVars, dealVars, negoVars, cliVars>>

\* The response callback of fetchPage throws on a Location that does not
\* resolve: an uncaught exception, the batch never continues.
BatchCrash ==
    /\ bpc = "awaiting"
    /\ \E i \in inFlight :
        /\ parseAbsolute(checks[i].pageUrl).ok
        /\ responseOf(web, checks[i].pageUrl).kind = "crash"
    /\ bpc' = "crashed"
    /\ UNCHANGED <<checks, web, started, inFlight, results>>
    /\ UNCHANGED <<matchVars, verifyVars, queryVars, publishVars, readVars, dealVars, negoVars, cliVars>>

\* The timer of line 183 fires.
BatchDelayElapsed ==
    /\ bpc = "delay"
    /\ bpc' = "loop"
    /\ UNCHANGED <<checks, web, started, inFlight, results>>
    /\ UNCHANGED <<matchVars, verifyVars, queryVars, publishVars, readVars, dealVars, negoVars, cliVars>>

\* The loop is over: return results (line 185).
BatchReturn ==
    /\ bpc = "loop"
    /\ Len(results) = Len(checks)
    /\ bpc' = "returned"
    /\ UNCHANGED <<checks, web, started, inFlight, results>>
    /\ UNCHANGED <<matchVars, verifyVars, queryVars, publishVars, readVars, dealVars, negoVars, cliVars>>

NextBatch ==
    \/ BatchIterate
    \/ BatchSettle
    \/ BatchCrash
    \/ BatchDelayElapsed
    \/ BatchReturn

SpecBatch == InitBatch /\ [][NextBatch]_vars

(***************************************************************************)
(* watch.js: queryBids.                                                    *)
(***************************************************************************)
MaxBids == 2

MaxTime == 2

\* Times in seconds since the epoch, as Math.floor(Date.now() / 1000) gives.
Times == 0..MaxTime

\* The text of a tag value: decimal digits (the number n) or anything else.
Digits(n) == [numeric |-> TRUE, n |-> n]

Word == [numeric |-> FALSE, n |-> 0]

Tag(name, value) == [name |-> name, value |-> value]

ExpiryTags ==
    {Tag("expiry", Digits(n)) : n \in 0..(MaxTime + 1)} \cup {Tag("expiry", Word)}

\* event.tags: no expiry tag, one after another tag, or two of them.
TagLists ==
    {<< >>}
    \cup {<<Tag("t", Word), x>> : x \in ExpiryTags}
    \cup {<<x, Tag("expiry", Digits(MaxTime + 1))>> : x \in ExpiryTags}

\* Events as relays hand them out; parses: JSON.parse(event.content) works.
BidEvents ==
    [tags : TagLists, parses : {TRUE}]
    \cup {[tags |-> << >>, parses |-> FALSE],
          [tags |-> <<Tag("t", Word), Tag("expiry", Digits(0))>>, parses |-> FALSE]}

\* parseInt(text): a number, or NaN.
parseInt(v) == [nan |-> ~v.numeric, n |-> v.n]

\* a > b where a may be NaN: every comparison with NaN is false.
greaterThan(a, b) == ~a.nan /\ a.n > b

\* tags.find(t => t[0] === name): a sequence of at most one tag.
find(tags, name) ==
    LET hits == {k \in 1..Len(tags) : tags[k].name = name} IN
    IF hits = {} THEN << >>
    ELSE <<tags[CHOOSE k \in hits : \A j \in hits : k <= j]>>

\* A bug: a bid expiring this very second counts as active.
isActiveInclusive(e, t) ==
    LET expiryTag == find(e.tags, "expiry") IN
    IF expiryTag = << >> THEN TRUE
    ELSE LET v == parseInt(expiryTag[1].value) IN ~v.nan /\ v.n >= t

\* The callback of events.filter (lines 95-99).
isActive(e, t) ==
    LET expiryTag == find(e.tags, "expiry") IN
    IF expiryTag = << >> THEN TRUE
    ELSE greaterThan(parseInt(expiryTag[1].value), t)

filterActive(events, t) ==
    LET keep(e) == isActive(e, t) IN SelectSeq(events, keep)

InitQuery ==
    /\ relayEvents \in SeqsUpTo(BidEvents, MaxBids)
    /\ now \in Times
    /\ activeBids = << >>
    /\ wpc = "ready"
    /\ MatchIdle /\ VerifyIdle /\ BatchIdle /\ PublishIdle /\ ReadIdle /\ DealIdle /\ NegoIdle /\ CliIdle

\* queryBids after pool.querySync resolved: the filter, then the loop that
\* prints each active bid, in which JSON.parse throws on a content that is
\* not JSON and the call rejects.
QueryBids ==
    /\ wpc = "ready"
    /\ LET active == filterActive(relayEvents, now) IN
        IF \A k \in 1..Len(active) : active[k].parses
        THEN wpc' = "returned" /\ activeBids' = active
        ELSE wpc' = "threw" /\ activeBids' = << >>
    /\ UNCHANGED <<relayEvents, now>>
    /\ UNCHANGED <<matchVars, verifyVars, batchVars, publishVars, readVars, dealVars, negoVars, cliVars>>

NextQuery == QueryBids

SpecQuery == InitQuery /\ [][NextQuery]_vars

(***************************************************************************)
(* abn.js createBid and registerSite, bid.js postBid and sendDM,           *)
(* register.js registerSite: validation, signing, and the loop that        *)
(* publishes the signed event to the relays.                               *)
(***************************************************************************)
\* config.js: RELAYS.
RELAYS ==
    <<"wss://relay.damus.io", "wss://nos.lol", "wss://relay.nostr.band",
      "wss://nostr.wine", "wss://relay.snort.social">>

\* A value is falsy when it is undefined, "" or 0.
Missing == ""

\* bid.sats: not given, or a number.
NoSats == [given |-> FALSE, n |-> 0]

Sats(n) == [given |-> TRUE, n |-> n]

falsySats(s) == ~s.given \/ s.n = 0

Bids ==
    [type : {Missing, "seeking", "offering", "swap"},
     industry : {Missing, "plumbing"},
     sats : {NoSats, Sats(0), Sats(-5), Sats(5000)}]

SiteFields == {"name", "url", "city", "state", "industry"}

Sites == [SiteFields -> {Missing, "given"}]

\* The call, its argument, and whether the key file and the recipient's key
\* can be read (loadPrivateKey, parsePrivateKey and parsePublicKey throw
\* otherwise).
Ops ==
    [name : {"createBid"}, arg : Bids, keyOk : BOOLEAN]
    \cup [name : {"registerSite"}, arg : Sites, keyOk : BOOLEAN]
    \cup [name : {"sendDM"}, arg : {[type |-> "inquiry"]}, keyOk : BOOLEAN]

\* abn.js createBid, lines 103-111: does the bid pass the three checks?
createBidAccepts(bid) ==
    /\ ~(bid.type = Missing \/ bid.type \notin {"seeking", "offering"})
    /\ ~(bid.industry = Missing)
    /\ ~(falsySats(bid.sats) /\ bid.type = "seeking")

\* A bug: the loop forgets the last required field.
registerSiteAcceptsNoIndustry(site) ==
    \A f \in SiteFields \ {"industry"} : site[f] # Missing

\* abn.js registerSite, lines 88-93: no required field is falsy.
registerSiteAccepts(site) ==
    \A f \in SiteFields : site[f] # Missing

\* The relays a call publishes to: sendDM uses RELAYS.slice(0, 3).
relaysOf(name) ==
    IF name = "sendDM" THEN SubSeq(RELAYS, 1, 3) ELSE RELAYS

\* What one iteration of the loop can come to.
AttemptOutcomes == {"published", "connectFailed", "publishFailed"}

\* A bug: sendDM throws as soon as one relay failed.
endOfLoopStrict(name, count, tried) ==
    IF name = "sendDM" /\ count < tried THEN "threw" ELSE "returned"

\* After the loop: sendDM throws when success === 0 (bid.js 196-198);
\* postBid and registerSite have no counter and return.
endOfLoop(name, count, tried) ==
    IF name = "sendDM" /\ count = 0 THEN "threw" ELSE "returned"

InitPublish ==
    /\ op \in Ops
    /\ ppc = "ready"
    /\ signedEvents = 0
    /\ attempts = << >>
    /\ success = 0
    /\ openRelays = {}
    /\ outcome = "none"
    /\ MatchIdle /\ VerifyIdle /\ BatchIdle /\ QueryIdle /\ ReadIdle /\ DealIdle /\ NegoIdle /\ CliIdle

\* ABN.createBid: the three checks, then postBid(bid).
CreateBid ==
    /\ ppc = "ready"
    /\ op.name = "createBid"
    /\ IF createBidAccepts(op.arg)
       THEN ppc' = "postBid" /\ outcome' = outcome
       ELSE ppc' = "done" /\ outcome' = "threw"
    /\ UNCHANGED <<op, signedEvents, attempts, success, openRelays>>
    /\ UNCHANGED <<matchVars, verifyVars, batchVars, queryVars, readVars, dealVars, negoVars, cliVars>>

\* ABN.registerSite: the required fields, then registerSite(site).
RegisterSite ==
    /\ ppc = "ready"
    /\ op.name = "registerSite"
    /\ IF registerSiteAccepts(op.arg)
       THEN ppc' = "registerSite" /\ outcome' = outcome
       ELSE ppc' = "done" /\ outcome' = "threw"
    /\ UNCHANGED <<op, signedEvents, attempts, success, openRelays>>
    /\ UNCHANGED <<matchVars, verifyVars, batchVars, queryVars, readVars, dealVars, negoVars, cliVars>>

\* sendDM is called.
SendDM ==
    /\ ppc = "ready"
    /\ op.name = "sendDM"
    /\ ppc' = "sendDM"
    /\ UNCHANGED <<op, signedEvents, attempts, success, openRelays, outcome>>
    /\ UNCHANGED <<matchVars, verifyVars, batchVars, queryVars, readVars, dealVars, negoVars, cliVars>>

\* The head of postBid, registerSite and sendDM: the keys are read and
\* finalizeEvent signs the event; a key that cannot be read throws before.
SignEvent ==
    /\ ppc \in {"postBid", "registerSite", "sendDM"}
    /\ IF op.keyOk
       THEN /\ signedEvents' = signedEvents + 1
            /\ ppc' = "publishing"
            /\ outcome' = outcome
       ELSE /\ signedEvents' = signedEvents
            /\ ppc' = "done"
            /\ outcome' = "threw"
    /\ UNCHANGED <<op, attempts, success, openRelays>>
    /\ UNCHANGED <<matchVars, verifyVars, batchVars, queryVars, readVars, dealVars, negoVars, cliVars>>

\* One iteration of the for loop over the relays: connect, publish, close,
\* with the catch that logs. relay.close() is in the try block after
\* publish, so a relay whose publish failed stays connected; success++ is
\* sendDM's.
PublishToRelay ==
    /\ ppc = "publishing"
    /\ Len(attempts) < Len(relaysOf(op.name))
    /\ LET url == relaysOf(op.name)[Len(attempts) + 1] IN
       \E o \in AttemptOutcomes :
        /\ attempts' = Append(attempts, [relay |-> url, outcome |-> o])
        /\ success' = IF o = "published" /\ op.name = "sendDM"
                      THEN success + 1 ELSE success
        /\ openRelays' = IF o = "publishFailed"
                         THEN openRelays \cup {url} ELSE openRelays
    /\ UNCHANGED <<op, ppc, signedEvents, outcome>>
    /\ UNCHANGED <<matchVars, verifyVars, batchVars, queryVars, readVars, dealVars, negoVars, cliVars>>

\* The loop is over.
EndOfLoop ==
    /\ ppc = "publishing"
    /\ Len(attempts) = Len(relaysOf(op.name))
    /\ outcome' = endOfLoop(op.name, success, Len(attempts))
    /\ ppc' = "done"
    /\ UNCHANGED <<op, signedEvents, attempts, success, openRelays>>
    /\ UNCHANGED <<matchVars, verifyVars, batchVars, queryVars, readVars, dealVars, negoVars, cliVars>>

NextPublish ==
    \/ CreateBid
    \/ RegisterSite
    \/ SendDM
    \/ SignEvent
    \/ PublishToRelay
    \/ EndOfLoop

SpecPublish == InitPublish /\ [][NextPublish]_vars

(***************************************************************************)
(* bid.js: readDMs, and the messages MessageTypes builds.                  *)
(***************************************************************************)
MaxDMs == 3

\* A number, and the ISO string new Date(t * 1000).toISOString().
Num(t) == [iso |-> FALSE, t |-> t]

Iso(t) == [iso |-> TRUE, t |-> t]

\* Events as the relays hand them out. content: what decrypting and parsing
\* it comes to: decrypt throws, JSON.parse throws, a message MessageTypes
\* built (type and timestamp: new Date().toISOString()), an object
\* without a timestamp of its own, or an object the sender gave keys id,
\* from and fromHex.
DMEvents ==
    [id : {"a", "b"}, pubkey : {"partner"}, created_at : {1, 2},
     content : {"undecryptable", "notJson", "typed", "plain", "named"}]

decodable(event) == event.content \in {"typed", "plain", "named"}

\* JSON.parse(plaintext) of a decodable event.
parsedOf(event) ==
    IF event.content = "typed"
    THEN [type |-> "inquiry", timestamp |-> Iso(event.created_at)]
    ELSE IF event.content = "named"
         THEN [type |-> "accept", id |-> "other", from |-> <<"npub", "another">>,
               fromHex |-> "another"]
         ELSE [type |-> "hello"]

\* { ...a, ...b }: the keys of b override those of a.
spread(a, b) ==
    [f \in DOMAIN a \cup DOMAIN b |-> IF f \in DOMAIN b THEN b[f] ELSE a[f]]

\* The object pushed for a decodable event (lines 232-239).
messageOf(event) ==
    spread([id |-> event.id, from |-> <<"npub", event.pubkey>>,
            fromHex |-> event.pubkey, timestamp |-> Num(event.created_at),
            date |-> Iso(event.created_at)],
           parsedOf(event))

\* A bug: no try/catch around the decoding, the first bad event throws.
decodeAllNoCatch(events) ==
    [threw |-> \E k \in 1..Len(events) : ~decodable(events[k]),
     list |-> << >>]

RECURSIVE decodeFrom(_, _)
\* The for loop of lines 228-244 over what is left of the events.
decodeFrom(events, acc) ==
    IF events = << >> THEN acc
    ELSE decodeFrom(Tail(events),
                    IF decodable(Head(events))
                    THEN Append(acc, messageOf(Head(events)))
                    ELSE acc)

decodeAll(events) == [threw |-> FALSE, list |-> decodeFrom(events, << >>)]

\* b.timestamp - a.timestamp: NaN when one of them is an ISO string.
compareFn(a, b) ==
    IF a.timestamp.iso \/ b.timestamp.iso
    THEN [nan |-> TRUE, n |-> 0]
    ELSE [nan |-> FALSE, n |-> b.timestamp.t - a.timestamp.t]

\* Array.prototype.sort places a after b when the comparator's value is
\* above 0; NaN counts as 0.
after(a, b) == LET v == compareFn(a, b) IN ~v.nan /\ v.n > 0

\* The comparator is consistent on the list when "neither after the other"
\* is transitive; otherwise the sort order is implementation-defined.
consistent(list) ==
    LET tied(i, j) == ~after(list[i], list[j]) /\ ~after(list[j], list[i])
        idx == 1..Len(list)
    IN \A i, j, k \in idx : tied(i, j) /\ tied(j, k) => tied(i, k)

insertSorted(acc, m) ==
    LET later == {k \in 1..Len(acc) : after(acc[k], m)}
        pos == IF later = {} THEN Len(acc) + 1
               ELSE CHOOSE k \in later : \A j \in later : k <= j
    IN SubSeq(acc, 1, pos - 1) \o <<m>> \o SubSeq(acc, pos, Len(acc))

RECURSIVE stableSortFrom(_, _)
stableSortFrom(list, acc) ==
    IF list = << >> THEN acc
    ELSE stableSortFrom(Tail(list), insertSorted(acc, Head(list)))

permutationsOf(list) ==
    LET idx == 1..Len(list)
        bijections == {p \in [idx -> idx] : \A i, j \in idx : p[i] = p[j] => i = j}
    IN {[i \in idx |-> list[p[i]]] : p \in bijections}

\* messages.sort((a, b) => b.timestamp - a.timestamp): the lists it may leave.
sortNewestFirst(list) ==
    IF consistent(list) THEN {stableSortFrom(list, << >>)}
    ELSE permutationsOf(list)

InitRead ==
    /\ dmEvents \in SeqsUpTo(DMEvents, MaxDMs)
    /\ messages = << >>
    /\ rpc = "ready"
    /\ MatchIdle /\ VerifyIdle /\ BatchIdle /\ QueryIdle /\ PublishIdle /\ DealIdle /\ NegoIdle /\ CliIdle

\* readDMs after pool.querySync resolved: decode, sort, return.
ReadDMs ==
    /\ rpc = "ready"
    /\ LET decoded == decodeAll(dmEvents) IN
        IF decoded.threw
        THEN rpc' = "threw" /\ messages' = << >>
        ELSE rpc' = "returned" /\ messages' \in sortNewestFirst(decoded.list)
    /\ UNCHANGED dmEvents
    /\ UNCHANGED <<matchVars, verifyVars, batchVars, queryVars, publishVars, dealVars, negoVars, cliVars>>

NextRead == ReadDMs

SpecRead == InitRead /\ [][NextRead]_vars

(***************************************************************************)
(* abn.js: executeDeal.                                                    *)
(***************************************************************************)
DealPage == <<"https://", "partner.com", "/", "links">>

\* The argument of executeDeal; Missing and 0 are falsy.
Deals ==
    [partner : {"npub1partner"}, inquiry : {Missing, "interested"},
     invoice : {Missing, "lnbc1"}, role : {Missing, "buyer", "seller"},
     sats : {0, 5000}, verifyUrl : {NoString, DealPage},
     targetDomain : {NoString, Target}, requireDofollow : BOOLEAN]

\* lightning.js payInvoice and createInvoice resolve or throw.
Wallets == [pay : {"ok", "fails"}, invoice : {"ok", "fails"}]

\* lightning.js LNbitsClient.payInvoice: the payment and its proof.
payInvoice(bolt11) == [invoice |-> bolt11, preimage |-> <<"preimage", bolt11>>]

\* lightning.js createInvoice(sats, bidId).
createInvoice(amount) == [sats |-> amount, paymentRequest |-> <<"lnbc", amount>>]

\* What verifyLink(deal.verifyUrl, deal.targetDomain, { dofollow }) may
\* resolve with.
Verifications(d) ==
    {verifyBacklink([pageUrl |-> d.verifyUrl, targetDomain |-> d.targetDomain,
                     options |-> [isNull |-> FALSE, dofollow |-> d.requireDofollow,
                                  anchor |-> NoString, exactUrl |-> NoString]],
                    response) :
        response \in {x \in Responses : x.kind \in {"resolved", "rejected"}}}

\* A bug: the role is not looked at, a seller with an invoice pays it.
paysInvoiceAnyRole(d) == d.invoice # Missing

\* The condition of step 2 (line 273).
paysInvoice(d) == d.invoice # Missing /\ d.role = "buyer"

\* The condition of step 3 (line 283).
makesInvoice(d) == d.sats # 0 /\ d.role = "seller"

\* The condition of step 4 (line 291).
verifiesLink(d) == d.verifyUrl # NoString /\ d.targetDomain # NoString

Throws == [kind |-> "threw"]

InitDeal ==
    /\ deal \in Deals
    /\ wallet \in Wallets
    /\ dpc = "step1"
    /\ steps = << >>
    /\ sent = << >>
    /\ paid = << >>
    /\ invoices = << >>
    /\ verification = NoResult
    /\ dealResult = [kind |-> "none"]
    /\ MatchIdle /\ VerifyIdle /\ BatchIdle /\ QueryIdle /\ PublishIdle /\ ReadIdle /\ NegoIdle /\ CliIdle

\* An awaited sendDM of message m, followed by steps.push(step): it resolves
\* and the flow goes on at `next`, or it throws (no relay took the event)
\* and executeDeal rejects.
SendThen(m, step, next) ==
    \/ /\ sent' = Append(sent, m)
       /\ steps' = Append(steps, step)
       /\ dpc' = next
       /\ dealResult' = IF next = "done"
                        THEN [kind |-> "returned", steps |-> steps']
                        ELSE dealResult
    \/ /\ sent' = sent
       /\ steps' = steps
       /\ dpc' = "done"
       /\ dealResult' = Throws

\* Step 1 (lines 267-270).
DealInquiry ==
    /\ dpc = "step1"
    /\ IF deal.inquiry # Missing
       THEN SendThen([type |-> "inquiry", message |-> deal.inquiry],
                     "inquiry_sent", "step2")
       ELSE dpc' = "step2" /\ UNCHANGED <<sent, steps, dealResult>>
    /\ UNCHANGED <<deal, wallet, paid, invoices, verification>>
    /\ UNCHANGED <<matchVars, verifyVars, batchVars, queryVars, publishVars, readVars, negoVars, cliVars>>

\* Step 2, the payment (lines 273-275): payInvoice throws when it fails.
DealPay ==
    /\ dpc = "step2"
    /\ IF paysInvoice(deal)
       THEN IF wallet.pay = "ok"
            THEN /\ paid' = Append(paid, payInvoice(deal.invoice))
                 /\ steps' = Append(steps, "payment_sent")
                 /\ dpc' = "confirm"
                 /\ dealResult' = dealResult
            ELSE /\ dpc' = "done"
                 /\ dealResult' = Throws
                 /\ UNCHANGED <<paid, steps>>
       ELSE dpc' = "step3" /\ UNCHANGED <<paid, steps, dealResult>>
    /\ UNCHANGED <<deal, wallet, sent, invoices, verification>>
    /\ UNCHANGED <<matchVars, verifyVars, batchVars, queryVars, publishVars, readVars, negoVars, cliVars>>

\* Step 2, the confirmation (lines 277-279): confirmPayment sends
\* MessageTypes.paid(payment.preimage, deal.linkDetails).
DealConfirmPayment ==
    /\ dpc = "confirm"
    /\ SendThen([type |-> "paid", preimage |-> paid[Len(paid)].preimage],
                "payment_confirmed", "step3")
    /\ UNCHANGED <<deal, wallet, paid, invoices, verification>>
    /\ UNCHANGED <<matchVars, verifyVars, batchVars, queryVars, publishVars, readVars, negoVars, cliVars>>

\* Step 3, the invoice (lines 283-284): createInvoice throws when it fails.
DealInvoice ==
    /\ dpc = "step3"
    /\ IF makesInvoice(deal)
       THEN IF wallet.invoice = "ok"
            THEN /\ invoices' = Append(invoices, createInvoice(deal.sats))
                 /\ dpc' = "accept"
                 /\ dealResult' = dealResult
            ELSE /\ dpc' = "done"
                 /\ dealResult' = Throws
                 /\ invoices' = invoices
       ELSE dpc' = "step4" /\ UNCHANGED <<invoices, dealResult>>
    /\ UNCHANGED <<deal, wallet, steps, sent, paid, verification>>
    /\ UNCHANGED <<matchVars, verifyVars, batchVars, queryVars, publishVars, readVars, negoVars, cliVars>>

\* Step 3, the accept (lines 285-287): acceptDeal sends
\* MessageTypes.accept(invoice.paymentRequest), then return { invoice, steps }.
DealAccept ==
    /\ dpc = "accept"
    /\ SendThen([type |-> "accept",
                 invoice |-> invoices[Len(invoices)].paymentRequest],
                "invoice_sent", "done")
    /\ UNCHANGED <<deal, wallet, paid, invoices, verification>>
    /\ UNCHANGED <<matchVars, verifyVars, batchVars, queryVars, publishVars, readVars, negoVars, cliVars>>

\* Step 4, the verification (lines 291-296), or the final return { steps }.
DealVerify ==
    /\ dpc = "step4"
    /\ IF verifiesLink(deal)
       THEN /\ verification' \in Verifications(deal)
            /\ steps' = Append(steps, "link_verified")
            /\ dpc' = "report"
            /\ dealResult' = dealResult
       ELSE /\ dpc' = "done"
            /\ dealResult' = [kind |-> "returned", steps |-> steps]
            /\ UNCHANGED <<verification, steps>>
    /\ UNCHANGED <<deal, wallet, sent, paid, invoices>>
    /\ UNCHANGED <<matchVars, verifyVars, batchVars, queryVars, publishVars, readVars, negoVars, cliVars>>

\* Step 4, the report (lines 299-303): verifyDeal sends
\* MessageTypes.verified(verification.verified, notes), then
\* steps.push('deal_complete') and return { verification, steps }.
DealReport ==
    /\ dpc = "report"
    /\ SendThen([type |-> "verified", confirmed |-> verification.verified],
                "deal_complete", "done")
    /\ UNCHANGED <<deal, wallet, paid, invoices, verification>>
    /\ UNCHANGED <<matchVars, verifyVars, batchVars, queryVars, publishVars, readVars, negoVars, cliVars>>

NextDeal ==
    \/ DealInquiry
    \/ DealPay
    \/ DealConfirmPayment
    \/ DealInvoice
    \/ DealAccept
    \/ DealVerify
    \/ DealReport

SpecDeal == InitDeal /\ [][NextDeal]_vars

(***************************************************************************)
(* abn.js: the negotiation methods of the ABN class, and the messages      *)
(* MessageTypes of dm.js builds for them. The caller runs two negotiations *)
(* with the same partner.                                                  *)
(***************************************************************************)
MaxCalls == 3

Negotiations == {"n1", "n2"}

\* What the caller has at hand for each negotiation: the bid it is about,
\* the invoice made for it, the proof of its payment, the page of its link.
bidOf(n) == <<"bid", n>>

invoiceOf(n) == <<"lnbc", n>>

preimageOf(n) == <<"preimage", n>>

liveUrlOf(n) == <<"https://", "partner.com", "/", n>>

\* MessageTypes (dm.js); t is new Date().toISOString().
inquiryMessage(bidId, message, t) ==
    [type |-> "inquiry", regarding |-> bidId, message |-> message, timestamp |-> Iso(t)]

counterMessage(amount, terms, t) ==
    [type |-> "counter", sats |-> amount, terms |-> terms, timestamp |-> Iso(t)]

acceptMessage(invoice, t) ==
    [type |-> "accept", invoice |-> invoice, timestamp |-> Iso(t)]

paidMessage(preimage, linkDetails, t) ==
    [type |-> "paid", preimage |-> preimage, linkDetails |-> linkDetails,
     timestamp |-> Iso(t)]

placedMessage(liveUrl, proof, t) ==
    [type |-> "placed", liveUrl |-> liveUrl, proof |-> proof, timestamp |-> Iso(t)]

verifiedMessage(confirmed, notes, t) ==
    [type |-> "verified", confirmed |-> confirmed, notes |-> notes, timestamp |-> Iso(t)]

\* new ABN(): the constructor sets this._pubkey = null and nothing else.
NewABN == [f \in {"_pubkey"} |-> "null"]

InitNegotiate ==
    /\ abn = NewABN
    /\ published = << >>
    /\ origin = << >>
    /\ clock \in Times
    /\ ncalls = 0
    /\ lastOutcome = "none"
    /\ MatchIdle /\ VerifyIdle /\ BatchIdle /\ QueryIdle /\ PublishIdle /\ ReadIdle
    /\ DealIdle /\ CliIdle

\* A negotiation method called for negotiation n: return sendDM(npub, m).
\* The methods take the partner and the message's arguments, nothing of n.
\* sendDM resolves when a relay took the event and throws when none did;
\* the clock moves on or not before the next call.
SendFor(n, m) ==
    /\ ncalls < MaxCalls
    /\ ncalls' = ncalls + 1
    /\ \/ /\ published' = Append(published, [to |-> "npub1partner", payload |-> m])
          /\ origin' = Append(origin, n)
          /\ lastOutcome' = "returned"
       \/ /\ UNCHANGED <<published, origin>>
          /\ lastOutcome' = "threw: Failed to publish to any relay"
    /\ clock' \in {clock, clock + 1} \cap Times
    /\ abn' = abn
    /\ UNCHANGED <<matchVars, verifyVars, batchVars, queryVars, publishVars, readVars,
                   dealVars, cliVars>>

InquireAboutBid ==
    \E n \in Negotiations : SendFor(n, inquiryMessage(bidOf(n), "Interested!", clock))

SendCounterOffer ==
    \E n \in Negotiations, amount \in {4000, 5000} :
        SendFor(n, counterMessage(amount, "footer link", clock))

AcceptDeal ==
    \E n \in Negotiations : SendFor(n, acceptMessage(invoiceOf(n), clock))

ConfirmPayment ==
    \E n \in Negotiations :
        SendFor(n, paidMessage(preimageOf(n), [url |-> "https://mysite.com"], clock))

ConfirmLinkPlaced ==
    \E n \in Negotiations : SendFor(n, placedMessage(liveUrlOf(n), "screenshot", clock))

VerifyDeal ==
    \E n \in Negotiations, confirmed \in BOOLEAN :
        SendFor(n, verifiedMessage(confirmed,
                                   IF confirmed THEN "Link verified!" ELSE "", clock))

NextNegotiate ==
    \/ InquireAboutBid
    \/ SendCounterOffer
    \/ AcceptDeal
    \/ ConfirmPayment
    \/ ConfirmLinkPlaced
    \/ VerifyDeal

SpecNegotiate == InitNegotiate /\ [][NextNegotiate]_vars

(***************************************************************************)
(* The command lines of abn.js, dm.js and verify.js. A word of the command *)
(* line is a sequence of tokens; "=" and the double quote are tokens of    *)
(* their own.                                                              *)
(***************************************************************************)
MaxFlags == 2

Flags ==
    { <<"--dofollow">>,
      <<"--anchor", "=", "best plumber">>,
      <<"--anchor", "=", "rates", "=", "low">>,
      <<"--anchor", "=", "the ", "\"", "best", "\"", " plumber">>,
      <<"--exact", "=", "https://targetdomain.com/page">>,
      <<"--exact", "=", "https://targetdomain.com/page?ref", "=", "abn">> }

FlagLists == UNION {[1..n -> Flags] : n \in 0..MaxFlags}

CommandLines ==
    [script : {"abn.js"},
     words : {<< >>, <<(<<"sites">>)>>, <<(<<"bids">>)>>, <<(<<"messages">>)>>,
              <<(<<"identity">>)>>}]
    \cup
    [script : {"dm.js"},
     words : {<< >>, <<(<<"read">>)>>, <<(<<"watch">>)>>,
              <<(<<"send">>), <<"npub1partner">>>>,
              <<(<<"send">>), <<"npub1partner">>, <<"inquiry">>>>,
              <<(<<"send">>), <<"npub1partner">>, <<"counter">>>>,
              <<(<<"send">>), <<"npub1partner">>, <<"accept">>>>}]
    \cup
    [script : {"verify.js"},
     words : {<< >>, <<(<<"https://partner.com/links">>)>>}
             \cup {<<(<<"https://partner.com/links">>), <<"targetdomain.com">>>> \o fl :
                       fl \in FlagLists}]

\* const [,, action, ...args] = process.argv
actionOf(cl) == IF cl.words = << >> THEN << >> ELSE cl.words[1]

argsOf(cl) == IF cl.words = << >> THEN << >> ELSE Tail(cl.words)

\* flag.startsWith('--anchor='), flag.startsWith('--exact=')
startsWith(flag, name) == Len(flag) >= 2 /\ flag[1] = name /\ flag[2] = "="

\* flag.split('='): the pieces between the "=" tokens.
RECURSIVE split(_)
split(s) ==
    IF \A k \in 1..Len(s) : s[k] # "="
    THEN <<s>>
    ELSE LET k == CHOOSE i \in 1..Len(s) :
                      s[i] = "=" /\ \A j \in 1..(i - 1) : s[j] # "="
         IN  <<SubSeq(s, 1, k - 1)>> \o split(SubSeq(s, k + 1, Len(s)))

\* .replace(/"/g, '')
replaceQuotes(s) == SelectSeq(s, LAMBDA t : t # "\"")

\* flag.split('=')[1].replace(/"/g, '')
flagValue(flag) == replaceQuotes(split(flag)[2])

\* The body of the loop over the flags (lines 261-265).
withFlag(opts, flag) ==
    LET o1 == IF flag = <<"--dofollow">> THEN [opts EXCEPT !.dofollow = TRUE] ELSE opts
        o2 == IF startsWith(flag, "--anchor")
              THEN [o1 EXCEPT !.anchor = flagValue(flag)] ELSE o1
    IN  IF startsWith(flag, "--exact")
        THEN [o2 EXCEPT !.exactUrl = flagValue(flag)] ELSE o2

RECURSIVE parseFlags(_, _)
parseFlags(opts, flags) ==
    IF flags = << >> THEN opts ELSE parseFlags(withFlag(opts, Head(flags)), Tail(flags))

\* const options = {}: no key is set.
NoOptions == [dofollow |-> FALSE, anchor |-> NoString, exactUrl |-> NoString]

InitCli ==
    /\ argv \in CommandLines
    /\ cpc = "start"
    /\ cliOptions = NoOptions
    /\ opResult = "none"
    /\ stderr = FALSE
    /\ exitCode = 0
    /\ MatchIdle /\ VerifyIdle /\ BatchIdle /\ QueryIdle /\ PublishIdle /\ ReadIdle
    /\ DealIdle /\ NegoIdle

\* The process ends: with process.exit(code), or with status 0 when main's
\* promise settled and process.exit was not called.
Exit(code, res, err) ==
    /\ cpc' = "exited"
    /\ exitCode' = code
    /\ opResult' = res
    /\ stderr' = err

\* main().catch(console.error): the rejection is printed on stderr and the
\* process ends normally.
CaughtByConsoleError == Exit(0, "failed", TRUE)

\* abn.js: sites, bids and identity print their result; messages reads the
\* private key first, which throws when there is none; no command prints
\* the usage text.
AbnMain ==
    /\ cpc = "start"
    /\ argv.script = "abn.js"
    /\ IF actionOf(argv) \in {<<"sites">>, <<"bids">>, <<"identity">>}
       THEN Exit(0, "ok", FALSE)
       ELSE IF actionOf(argv) = <<"messages">>
            THEN Exit(0, "ok", FALSE) \/ CaughtByConsoleError
            ELSE Exit(0, "usage", FALSE)
    /\ UNCHANGED <<argv, cliOptions>>
    /\ UNCHANGED <<matchVars, verifyVars, batchVars, queryVars, publishVars, readVars,
                   dealVars, negoVars>>

\* dm.js: read and watch throw when there is no private key (read also when
\* a message has no type); send exits 1 on too few arguments and on a type
\* other than inquiry and counter, both told on stdout, and sendDM throws
\* when no relay took the event; watch ends with process.exit(0) on SIGINT.
DmMain ==
    /\ cpc = "start"
    /\ argv.script = "dm.js"
    /\ IF actionOf(argv) \in {<<"read">>, <<"watch">>}
       THEN Exit(0, "ok", FALSE) \/ CaughtByConsoleError
       ELSE IF actionOf(argv) = <<"send">>
            THEN IF Len(argsOf(argv)) < 2
                 THEN Exit(1, "usage", FALSE)
                 ELSE IF argsOf(argv)[2] \in {<<"inquiry">>, <<"counter">>}
                      THEN Exit(0, "ok", FALSE) \/ CaughtByConsoleError
                      ELSE Exit(1, "usage", FALSE)
            ELSE Exit(0, "usage", FALSE)
    /\ UNCHANGED <<argv, cliOptions>>
    /\ UNCHANGED <<matchVars, verifyVars, batchVars, queryVars, publishVars, readVars,
                   dealVars, negoVars>>

\* verify.js without a page or a target: the usage text and process.exit(0).
VerifyUsage ==
    /\ cpc = "start"
    /\ argv.script = "verify.js"
    /\ Len(argv.words) < 2
    /\ Exit(0, "usage", FALSE)
    /\ UNCHANGED <<argv, cliOptions>>
    /\ UNCHANGED <<matchVars, verifyVars, batchVars, queryVars, publishVars, readVars,
                   dealVars, negoVars>>

\* verify.js: const [,, pageUrl, targetDomain, ...flags] and the loop over
\* the flags.
VerifyParse ==
    /\ cpc = "start"
    /\ argv.script = "verify.js"
    /\ Len(argv.words) >= 2
    /\ cliOptions' = parseFlags(NoOptions, SubSeq(argv.words, 3, Len(argv.words)))
    /\ cpc' = "parsed"
    /\ UNCHANGED <<argv, opResult, stderr, exitCode>>
    /\ UNCHANGED <<matchVars, verifyVars, batchVars, queryVars, publishVars, readVars,
                   dealVars, negoVars>>

\* verifyBacklink(pageUrl, targetDomain, options).then(report on stdout):
\* verifyBacklink resolves in every case, with the link verified, with the
\* link not found or not as required, or with the error of a failed fetch in
\* the result; the report is printed and the process ends normally.
VerifyRun ==
    /\ cpc = "parsed"
    /\ \E res \in {"ok", "notVerified", "failed"} : Exit(0, res, FALSE)
    /\ UNCHANGED <<argv, cliOptions>>
    /\ UNCHANGED <<matchVars, verifyVars, batchVars, queryVars, publishVars, readVars,
                   dealVars, negoVars>>

NextCli ==
    \/ AbnMain
    \/ DmMain
    \/ VerifyUsage
    \/ VerifyParse
    \/ VerifyRun

SpecCli == InitCli /\ [][NextCli]_vars

(***************************************************************************)
(* Claims about findMatches.                                               *)
(***************************************************************************)
\* The score as the specification states it.
StatedIndustryPoints(a, b) ==
    IF a = b THEN 25
    ELSE IF b \in RELATED_INDUSTRIES(a) \/ a \in RELATED_INDUSTRIES(b) THEN 20
    ELSE 0

StatedAuthorityPoints(da) == IF da >= 40 THEN 25 ELSE IF da >= 30 THEN 15 ELSE 0

StatedScore(your, site) ==
    (IF your.state = site.state THEN 30 ELSE 0)
  + (IF your.city # site.city THEN 20 ELSE 0)
  + StatedIndustryPoints(your.industry, site.industry)
  + StatedAuthorityPoints(site.da)

Candidates == {i \in 1..Len(allSites) : allSites[i].url # yourSite.url}

\* C1: the score findMatches gives a candidate is the stated sum: 30 for the
\* same state, 20 for a different city, 25 for the same industry or else 20
\* for industries related in either direction, 15 for an authority of at
\* least 30 and 10 more for at least 40; every returned candidate carries it,
\* the candidates left out are those whose stated sum is at most 30, and
\* {CA, LA, plumbing, 0} against {CA, SD, plumbing, 35} scores 90.
C1_ScoreIsStatedSum ==
    qpc = "done" =>
        /\ \A k \in 1..Len(matches) :
               matches[k].matchScore = StatedScore(yourSite, matches[k].site)
        /\ \A i \in Candidates :
               (StatedScore(yourSite, allSites[i]) > 30) <=>
               (\E k \in 1..Len(matches) :
                    /\ matches[k].site = allSites[i]
                    /\ matches[k].matchScore = StatedScore(yourSite, allSites[i]))
        /\ ( /\ yourSite.industry = "plumbing"
             /\ allSites = <<[url |-> "u1", state |-> "CA", city |-> "SD",
                              industry |-> "plumbing", da |-> 35]>> )
           => (Len(matches) = 1 /\ matches[1].matchScore = 90)

\* C1 witness: a candidate related only through the reverse direction of the
\* table (gutters is no key; roofing lists it) with authority 45 scores
\* 30 + 20 + 20 + 25.
C1_Witness ==
    /\ qpc = "done"
    /\ yourSite.industry = "gutters"
    /\ Len(matches) = 1
    /\ matches[1].site.industry = "roofing"
    /\ matches[1].site.da = 45
    /\ matches[1].matchScore = 95

\* C2: the result holds no candidate with the requester's url and no
\* candidate whose score is at most 30.
C2_NoSelfNoLowScore ==
    qpc = "done" =>
        \A k \in 1..Len(matches) :
            /\ matches[k].site.url # yourSite.url
            /\ matches[k].matchScore > 30
            /\ StatedScore(yourSite, matches[k].site) > 30

\* C2 witness: a list with the requester's own site and a candidate scoring
\* at most 30, both left out of the result.
C2_Witness ==
    /\ qpc = "done"
    /\ Len(allSites) = 2
    /\ allSites[1].url = yourSite.url
    /\ allSites[2].url # yourSite.url
    /\ StatedScore(yourSite, allSites[2]) <= 30
    /\ matches = << >>

SitesOf(ms) == [k \in 1..Len(ms) |-> ms[k].site]

MatchesWithScore(v) ==
    LET has(m) == m.matchScore = v IN SitesOf(SelectSeq(matches, has))

CandidatesWithScore(v) ==
    LET has(s) == s.url # yourSite.url /\ StatedScore(yourSite, s) = v
    IN SelectSeq(allSites, has)

\* C3: the result is in descending order of score, and the candidates of
\* one score appear in the order the input list has them.
C3_SortedDescendingStable ==
    qpc = "done" =>
        /\ \A i, j \in 1..Len(matches) :
               i < j => matches[i].matchScore >= matches[j].matchScore
        /\ \A k \in 1..Len(matches) :
               MatchesWithScore(matches[k].matchScore)
                   = CandidatesWithScore(matches[k].matchScore)

\* C3 witness: two different candidates with the same score, both returned.
C3_Witness ==
    /\ qpc = "done"
    /\ Len(matches) = 2
    /\ matches[1].matchScore = matches[2].matchScore
    /\ matches[1].site # matches[2].site
    /\ matches[1].site = allSites[1]

(***************************************************************************)
(* Claims about verifyBacklink.                                            *)
(***************************************************************************)
\* The call went through a successful fetch and the try block to its return.
Analysed == vpc = "done" /\ fetchErr = NoString /\ ~options.isNull

Links == extractLinks(html)

PointsToTarget(l) ==
    LET url == newURL(l.href, pageUrl) IN
    IF url.ok THEN includes(url.hostname, targetDomain)
    ELSE includes(l.href, targetDomain)

StatedMatches == SelectSeq(Links, PointsToTarget)

\* C5: the links verify counts as pointing to the target domain are exactly
\* those whose resolved host contains targetDomain, the raw href being
\* tested only when the href does not resolve.
C5_FilterByResolvedHost ==
    Analysed => result.linksFound = StatedMatches

\* The filter as the code applies it, for the claims about the later steps.
PassedFilter(l) == matchesDomain(l, pageUrl, targetDomain)

FilterMatches == SelectSeq(Links, PassedFilter)

HasRequiredAnchor(l) ==
    includes(toLowerCase(l.anchor), toLowerCase(options.anchor))

HasRequiredHref(l) ==
    \/ l.href = options.exactUrl
    \/ LET url == newURL(l.href, pageUrl) IN
       url.ok /\ urlHref(url) = options.exactUrl

SatisfiesAll(l) ==
    /\ PassedFilter(l)
    /\ options.dofollow => l.isDoFollow
    /\ options.anchor # NoString => HasRequiredAnchor(l)
    /\ options.exactUrl # NoString => HasRequiredHref(l)

FirstOf(ls) == IF ls = << >> THEN << >> ELSE <<Head(ls)>>

\* C6: when verify returns verified = true, bestMatch is the first link in
\* document order that passes the domain filter, is dofollow if that is
\* required, has the required anchor text if one is set and the required
\* href if one is set.
C6_BestMatchSatisfiesAll ==
    (Analysed /\ result.verified) =>
        result.bestMatch = FirstOf(SelectSeq(Links, SatisfiesAll))

NoConstraints ==
    /\ ~options.isNull
    /\ ~options.dofollow
    /\ options.anchor = NoString
    /\ options.exactUrl = NoString

NamesTarget(l) ==
    \/ includes(l.href, targetDomain)
    \/ LET url == newURL(l.href, pageUrl) IN
       url.ok /\ includes(urlHref(url), targetDomain)

\* C7: without constraints, verify on a fetched page returns verified = true
\* exactly when some extracted link points to the target domain, bestMatch
\* then being the first such link (its href names the target domain), and
\* otherwise verified = false with "No links found to target domain".
C7_NoConstraints ==
    (Analysed /\ NoConstraints) =>
        /\ result.verified <=> StatedMatches # << >>
        /\ result.verified =>
               /\ result.bestMatch = FirstOf(StatedMatches)
               /\ NamesTarget(result.bestMatch[1])
        /\ ~result.verified =>
               result.message.text = "No links found to target domain"

IsNoFollow(l) == ~l.isDoFollow

\* C8: with dofollow required, when links point to the target domain and all
\* of them are nofollow, verify returns verified = false with the nofollow
\* message and reports those links; when one of them is dofollow the step
\* does not fail.
C8_AllNofollowFails ==
    (Analysed /\ options.dofollow /\ StatedMatches # << >>) =>
        IF SelectSeq(StatedMatches, IsNoFollow) = StatedMatches
        THEN /\ ~result.verified
             /\ result.message.text = "Links found but all are nofollow"
             /\ result.linksFound = StatedMatches
        ELSE result.message.text # "Links found but all are nofollow"

SurvivesNarrowing(l) == PassedFilter(l) /\ (options.dofollow => l.isDoFollow)

AnchorCandidates ==
    LET ok(l) == SurvivesNarrowing(l) /\ HasRequiredAnchor(l)
    IN SelectSeq(Links, ok)

\* C9: with a required anchor substring, verify returns verified = true only
\* if some link that passed the domain filter (and is dofollow, when that is
\* required) has the substring in its anchor text, compared without case;
\* when the earlier steps pass and no such link exists, it returns
\* verified = false with the message about the anchor text.
C9_AnchorOnNarrowedLinks ==
    (Analysed /\ options.anchor # NoString) =>
        /\ result.verified => AnchorCandidates # << >>
        /\ ( /\ AnchorCandidates = << >>
             /\ SelectSeq(Links, SurvivesNarrowing) # << >> )
           => /\ ~result.verified
              /\ result.message = Message("Links found but anchor text not matched",
                                          options.anchor)

\* The call got as far as the exact-href step.
AtExactStep ==
    result.message.text \in {"Links found but exact URL not matched",
                             "Found link(s) to target domain"}

\* C10: with a required exact href, the step passes exactly when some link
\* that passed the domain filter has that href, as written in the page or
\* after resolution against the page URL; otherwise the result is
\* verified = false with the message about the exact URL.
C10_ExactHrefRawOrResolved ==
    (Analysed /\ options.exactUrl # NoString /\ AtExactStep) =>
        LET some == \E k \in 1..Len(FilterMatches) : HasRequiredHref(FilterMatches[k])
        IN /\ result.verified <=> some
           /\ ~some => result.message = Message("Links found but exact URL not matched",
                                                options.exactUrl)

HasExpiry(e) ==
    /\ find(e.tags, "expiry") # << >>
    /\ find(e.tags, "expiry")[1].value.numeric

ExpiryOf(e) == find(e.tags, "expiry")[1].value.n

\* C12: a bid that carries an expiry is active exactly when now < expiry, and
\* a list that queryBids returns holds no bid whose expiry is at or before
\* now and every received bid whose expiry is after now.
C12_ActiveIffBeforeExpiry ==
    /\ \A k \in 1..Len(relayEvents) :
        HasExpiry(relayEvents[k])
            => (isActive(relayEvents[k], now) <=> now < ExpiryOf(relayEvents[k]))
    /\ wpc = "returned" =>
        /\ \A k \in 1..Len(activeBids) :
            HasExpiry(activeBids[k]) => now < ExpiryOf(activeBids[k])
        /\ \A k \in 1..Len(relayEvents) :
            HasExpiry(relayEvents[k]) /\ now < ExpiryOf(relayEvents[k])
                => \E j \in 1..Len(activeBids) : activeBids[j] = relayEvents[k]

\* A bid expiring this second was dropped and a later one was returned.
C12_Witness ==
    /\ wpc = "returned"
    /\ Len(relayEvents) = 2
    /\ HasExpiry(relayEvents[1]) /\ ExpiryOf(relayEvents[1]) = now
    /\ HasExpiry(relayEvents[2]) /\ ExpiryOf(relayEvents[2]) = now + 1
    /\ activeBids = <<relayEvents[2]>>

(***************************************************************************)
(* Claims about createBid, registerSite, postBid and sendDM.               *)
(***************************************************************************)
Rejected ==
    /\ ppc = "done"
    /\ outcome = "threw"
    /\ signedEvents = 0
    /\ attempts = << >>

\* The three checks, as stated.
StatedValidBid(bid) ==
    /\ bid.type \in {"seeking", "offering"}
    /\ bid.industry # Missing
    /\ bid.type = "seeking" => bid.sats.given /\ bid.sats.n > 0

\* C13: once createBid has acted, a seeking bid without a positive sats
\* offer, a bid without industry and a bid whose type is neither seeking nor
\* offering is rejected with an error before anything is signed or
\* published; only a bid that passes the three checks reaches postBid.
C13_OnlyValidBidsPosted ==
    op.name = "createBid" /\ ppc # "ready" /\ ~StatedValidBid(op.arg) => Rejected

\* C14: once ABN.registerSite has acted on a site that lacks one of name,
\* url, city, state and industry, the call has ended with an error, no event
\* was signed and no relay was tried.
C14_IncompleteSiteRejected ==
    /\ op.name = "registerSite"
    /\ ppc # "ready"
    /\ \E f \in SiteFields : op.arg[f] = Missing
    => Rejected

\* A site that lacks only its industry was rejected.
C14_Witness ==
    /\ op.name = "registerSite"
    /\ op.keyOk
    /\ op.arg["industry"] = Missing
    /\ \A f \in SiteFields \ {"industry"} : op.arg[f] # Missing
    /\ Rejected

Published(k) == attempts[k].outcome = "published"

\* C15: sendDM, once the message is signed, tries its relays in order, each
\* once, whatever the earlier ones answered; when the loop is over it has
\* tried all of them, it returns the event if at least one relay accepted
\* it and it throws exactly when none did.
C15_SendDMRelays ==
    op.name = "sendDM" /\ signedEvents > 0 =>
        /\ Len(attempts) <= Len(relaysOf("sendDM"))
        /\ \A k \in 1..Len(attempts) : attempts[k].relay = relaysOf("sendDM")[k]
        /\ ppc = "publishing" /\ Len(attempts) < Len(relaysOf("sendDM"))
            => ENABLED PublishToRelay
        /\ ppc = "done" =>
            /\ Len(attempts) = Len(relaysOf("sendDM"))
            /\ outcome = "returned" <=> \E k \in 1..Len(attempts) : Published(k)
            /\ outcome = "threw" <=> \A k \in 1..Len(attempts) : ~Published(k)

\* The first two relays failed, the third accepted, and sendDM returned.
C15_Witness ==
    /\ op.name = "sendDM"
    /\ ppc = "done"
    /\ outcome = "returned"
    /\ Len(attempts) = 3
    /\ attempts[1].outcome = "connectFailed"
    /\ attempts[2].outcome = "publishFailed"
    /\ attempts[3].outcome = "published"

\* C16: a postBid or registerSite whose publish failed on every relay ends
\* with an error for its caller.
C16_AllRelaysFailedIsError ==
    /\ op.name \in {"createBid", "registerSite"}
    /\ ppc = "done"
    /\ signedEvents > 0
    /\ \A k \in 1..Len(attempts) : ~Published(k)
    => outcome = "threw"

(***************************************************************************)
(* Claims about readDMs.                                                   *)
(***************************************************************************)
Count(list, x) == Cardinality({k \in 1..Len(list) : list[k] = x})

DecodableEvents == {k \in 1..Len(dmEvents) : decodable(dmEvents[k])}

\* C17: readDMs never fails on an event it cannot decrypt or parse; what it
\* returns is, with multiplicity, the messages of the decodable events of
\* the batch, and nothing of the others.
C17_SkipsUndecodable ==
    rpc # "ready" =>
        /\ rpc = "returned"
        /\ Len(messages) = Cardinality(DecodableEvents)
        /\ \A k \in DecodableEvents :
            Count(messages, messageOf(dmEvents[k]))
                = Cardinality({j \in DecodableEvents :
                                 messageOf(dmEvents[j]) = messageOf(dmEvents[k])})

\* A bad event between two decodable ones: both of them were returned.
C17_Witness ==
    /\ rpc = "returned"
    /\ Len(dmEvents) = 3
    /\ decodable(dmEvents[1]) /\ ~decodable(dmEvents[2]) /\ decodable(dmEvents[3])
    /\ dmEvents[1] # dmEvents[3]
    /\ Len(messages) = 2

\* The creation time of the event a message came from: date is
\* new Date(event.created_at * 1000).toISOString().
CreatedAt(m) == m.date.t

\* C18: in the list readDMs returns, a message whose event was created
\* later never comes after one whose event was created earlier.
C18_NewestFirst ==
    rpc = "returned" =>
        \A i, j \in 1..Len(messages) :
            i < j => CreatedAt(messages[i]) >= CreatedAt(messages[j])

(***************************************************************************)
(* Claims about executeDeal.                                               *)
(***************************************************************************)
Has(list, x) == \E k \in 1..Len(list) : list[k] = x

\* C19: executeDeal reports the deal as complete only when the result of the
\* link verification is verified.
C19_CompleteOnlyIfVerified ==
    Has(steps, "deal_complete") => verification.verified

SentOfType(t) == {k \in 1..Len(sent) : sent[k].type = t}

C21_MessagesScopedToNegotiation ==
    \A i, j \in 1..Len(published) :
        origin[i] # origin[j] => published[i] # published[j]

AcceptsSent(n) ==
    {k \in 1..Len(published) : origin[k] = n /\ published[k].payload.type = "accept"}

\* C22: once a second accept was sent for a negotiation, the agent holds a
\* Deal for it whose status is still ACCEPTED and whose messageLog ends with
\* that accept.
C22_DuplicateAcceptLogged ==
    \A n \in Negotiations :
        /\ Cardinality(AcceptsSent(n)) >= 2
        /\ Len(published) \in AcceptsSent(n)
        => /\ "deals" \in DOMAIN abn
           /\ abn["deals"][n].status = "ACCEPTED"
           /\ abn["deals"][n].messageLog # << >>
           /\ abn["deals"][n].messageLog[Len(abn["deals"][n].messageLog)]
                = published[Len(published)].payload

\* C23: a deal run through inquiry, payment, paid message and a link
\* verification that fails ends as failed: the run that executeDeal returns
\* does not end in the step that marks the deal complete.
C23_FailedVerificationEndsFailed ==
    /\ dpc = "done"
    /\ Has(steps, "inquiry_sent")
    /\ Has(steps, "payment_confirmed")
    /\ Has(steps, "link_verified")
    /\ ~verification.verified
    => steps[Len(steps)] # "deal_complete"

(***************************************************************************)
(* Claims about the command lines.                                         *)
(***************************************************************************)
\* C24: a command that has ended ended with status 0 when the operation it
\* ran succeeded, and with a non-zero status and a message on stderr when
\* the operation it ran failed.
C24_ExitStatusTellsFailure ==
    cpc = "exited" =>
        /\ opResult = "ok" => exitCode = 0
        /\ opResult = "failed" => exitCode # 0 /\ stderr

CliFlags == SubSeq(argv.words, 3, Len(argv.words))

LastFlag(name) ==
    {k \in 1..Len(CliFlags) :
        /\ startsWith(CliFlags[k], name)
        /\ \A j \in (k + 1)..Len(CliFlags) : ~startsWith(CliFlags[j], name)}

TextAfter(flag) == SubSeq(flag, 3, Len(flag))

\* C25: after the flags of verify.js are parsed, dofollow is required
\* exactly when --dofollow was given, the required anchor text is the whole
\* text after --anchor= and the required href is the whole text after
\* --exact=, as given or with its double quotes dropped.
C25_FlagsMappedFaithfully ==
    cpc = "parsed" =>
        /\ cliOptions.dofollow <=> \E k \in 1..Len(CliFlags) : CliFlags[k] = <<"--dofollow">>
        /\ \A k \in LastFlag("--anchor") :
              cliOptions.anchor \in {TextAfter(CliFlags[k]), replaceQuotes(TextAfter(CliFlags[k]))}
        /\ \A k \in LastFlag("--exact") :
              cliOptions.exactUrl \in {TextAfter(CliFlags[k]), replaceQuotes(TextAfter(CliFlags[k]))}

(***************************************************************************)
(* Claims about extractLinks.                                              *)
(***************************************************************************)
HasHref(el) == el.href # << >>

AnchorsWithHref == SelectSeq(html, HasHref)

\* C26: extractLinks returns one link record for every anchor element of
\* the body that has an href, in document order, whatever the anchor
\* contains.
C26_OneRecordPerAnchor ==
    /\ Len(Links) = Len(AnchorsWithHref)
    /\ \A k \in 1..Len(Links) : Links[k].href = trim(AnchorsWithHref[k].href)

\* C27: the flags of every link record agree with the record's rel value:
\* isDoFollow is false exactly when rel contains nofollow, isSponsored and
\* isUGC are true exactly when rel contains sponsored and ugc.
C27_FlagsAgreeWithRel ==
    \A k \in 1..Len(Links) :
        /\ Links[k].isDoFollow <=> ~includes(Links[k].rel, <<"nofollow">>)
        /\ Links[k].isSponsored <=> includes(Links[k].rel, <<"sponsored">>)
        /\ Links[k].isUGC <=> includes(Links[k].rel, <<"ugc">>)

\* C28: every message readDMs returns carries the id of a signed event of
\* the batch and, as from and fromHex, the identity that signed that event,
\* whatever the decrypted payload holds.
C28_SenderIsSigner ==
    rpc = "returned" =>
        \A k \in 1..Len(messages) :
            \E j \in DecodableEvents :
                /\ messages[k].id = dmEvents[j].id
                /\ messages[k].fromHex = dmEvents[j].pubkey
                /\ messages[k].from = <<"npub", dmEvents[j].pubkey>>

\* C29: every call of verifyBacklink eventually ends, whatever the servers
\* answer: it returns its result, or the process has died of the uncaught
\* exception of an unresolvable redirect.
C29_VerifyEventuallyEnds == <>(vpc \in {"done", "crashed"})

\* C30: when sendDM, postBid or registerSite has ended, no relay connection
\* it opened is still open.
C30_RelaysClosedAtEnd == ppc = "done" => openRelays = {}

====
